---- MODULE Spec2Model ----
(***************************************************************************)
(* Model of sync_engine.py: the one-way reconciliation of the s002 SQL     *)
(* Server tables into the Azure PostgreSQL tables.  main() runs            *)
(* FXTradeSync.sync() and then FXOptionTradeSync.sync(); each sync reads   *)
(* the id sets of both stores, fetches the rows missing in the target,     *)
(* inserts them with ON CONFLICT DO NOTHING, commits and compares counts.  *)
(*                                                                         *)
(* A table is a set of rows [id, val]; the source is keyed by id.  The     *)
(* target is a set of rows too, so that key uniqueness is something the    *)
(* insert statement has to establish, not something the model assumes.     *)
(***************************************************************************)
EXTENDS Integers, Sequences, FiniteSets, TLC

Min(a, b) == IF a < b THEN a ELSE b

\* ---------------------------------------------------------------- bounds
MaxId == 2
MaxRuns == 2
MaxEnv == 1

Ids == 1..MaxId

\* BATCH_SIZE is read from the environment of the process.  The value is
\* drawn when execute_batch first uses it; a page larger than the largest
\* fetch behaves like one of that size.
BatchSizes == 1..MaxId

\* ------------------------------------------------------- entity types
Entities == <<"FXTrade", "FXOptionTrade">>
NumEntities == Len(Entities)

\* Row versions: the row as the source holds it now, the row as an earlier
\* sync (or a manual insert) left it in the target, the row of a concurrent
\* writer to the target.
SrcVal == "src"
StaleVal == "stale"
WriterVal == "writer"

Row(i, v) == [id |-> i, val |-> v]
Keys(tbl) == {r.id : r \in tbl}
RowsOf(ids, v) == {Row(i, v) : i \in ids}
IsKeyed(tbl) == \A r1 \in tbl : \A r2 \in tbl : r1.id = r2.id => r1 = r2

MinOf(S) == CHOOSE x \in S : \A y \in S : x <= y

VARIABLES
    source,        \* source tables: [1..NumEntities -> set of rows]
    target,        \* committed contents of the target tables
    txn,           \* rows written by pg_conn's open transaction, not committed
    batch_size,    \* SyncConfig.BATCH_SIZE; 0 until the process first uses it
    pc,            \* position of the process in main() / sync()
    cur,           \* index in Entities of the sync being run
    run,           \* number of the invocation of main()
    exc,           \* exception in flight ("none" when there is none)
    success,       \* main()'s success flag
    exitCode,      \* process exit status, -1 while running
    source_ids, target_ids, missing_ids,    \* sync() locals
    records,       \* rows returned by fetch_missing_records, ordered by id
    pos,           \* rows of records already sent by execute_batch
    inserted,      \* value returned by insert_records
    final_count,
    ret,           \* sync()'s return value
    sql_conn, sql_cursor, pg_conn, pg_cursor,    \* "none" | "open" | "closed"
    sql_readonly,  \* the readonly attribute the source connection was opened with
    result,        \* history: outcome of each entity's sync in this invocation
    prev,          \* history: result of the previous invocation
    target0,       \* history: committed target of the entity when its sync began
    added,         \* history: rows this sync committed to the target
    writerRows,    \* history: rows a concurrent writer landed during this sync
    srcOps,        \* history: statements issued on this sync's source connection
    pages,         \* history: INSERT pages executed by this sync
    conflictSeen,  \* history: an INSERT met a key that was already present
    fetchLens,     \* history: parameter counts of the fetch queries of this sync
    committed,     \* history: this sync called pg_conn.commit()
    envCount       \* history: number of concurrent changes so far

stores == <<source, target, txn>>
locals == <<source_ids, target_ids, missing_ids, records, pos, inserted, final_count, ret>>
conns == <<sql_conn, sql_cursor, pg_conn, pg_cursor, sql_readonly>>
ctl == <<pc, cur, run, exc, success, exitCode, batch_size>>
hist == <<result, prev, target0, added, writerRows, srcOps, pages, conflictSeen,
          fetchLens, committed, envCount>>
vars == <<stores, locals, conns, ctl, hist>>

NoResult == [e \in 1..NumEntities |-> "NONE"]

\* ------------------------------------------------------ pure functions

\* Mutants of MissingIds: the difference the wrong way round; no difference;
\* a watermark, only the ids above the highest id of the target
MissingIdsSwapped(sids, tids) == tids \ sids
MissingIdsAll(sids, tids) == sids
MissingIdsAboveWatermark(sids, tids) == {i \in sids : \A t \in tids : i > t}

\* sync(): missing_ids = source_ids - target_ids
MissingIds(sids, tids) == sids \ tids

\* ORDER BY TradeId: the rows of a keyed table as a list, ascending by id
RECURSIVE OrderById(_)
OrderById(rows) ==
    IF rows = {} THEN <<>>
    ELSE LET m == MinOf(Keys(rows))
             r == CHOOSE x \in rows : x.id = m
         IN <<r>> \o OrderById(rows \ {r})

\* Mutants of FetchMissingRecords: the WHERE TradeId IN (...) filter is lost;
\* a row is returned for every id asked for, in the source or not
FetchAllRecords(tbl, mids) ==
    IF mids = {} THEN <<>>
    ELSE OrderById(tbl)
FetchEveryId(tbl, mids) ==
    IF mids = {} THEN <<>>
    ELSE OrderById(RowsOf(mids, SrcVal))

\* fetch_missing_records: SELECT ... WHERE TradeId IN (missing_ids) ORDER BY TradeId
FetchMissingRecords(tbl, mids) ==
    IF mids = {} THEN <<>>
    ELSE OrderById({r \in tbl : r.id \in mids})

\* The parameter tuple of the fetch query: one '?' per missing id
FetchParams(mids) == Cardinality(mids)

\* The most parameters the source backend accepts in one statement (2100 on
\* SQL Server).  Scaled to the model: the largest missing set exceeds it.
ParamLimit == MaxId - 1

\* Mutants of AfterDiff: the test "if missing_ids:" is lost and the fetch,
\* insert and commit always run; an empty missing set returns at once,
\* without the verification
AfterDiffAlwaysFetch(mids) == "fetch"
AfterDiffReturnEarly(mids) == IF mids # {} THEN "fetch" ELSE "finally"

\* sync(): "if missing_ids:" runs the fetch, the insert and the commit;
\* otherwise the next statement is the final verification
AfterDiff(mids) == IF mids # {} THEN "fetch" ELSE "count"

\* Mutants of InsertOnConflictDoNothing: a plain INSERT, which the primary
\* key rejects; ON CONFLICT (trade_id) DO UPDATE, which overwrites
InsertPlain(visible, pend, r) ==
    IF r.id \in Keys(visible)
    THEN [pend |-> pend, raised |-> TRUE]
    ELSE [pend |-> pend \cup {r}, raised |-> FALSE]
InsertOnConflictDoUpdate(visible, pend, r) ==
    [pend |-> {x \in pend : x.id # r.id} \cup {r}, raised |-> FALSE]

\* The table after a transaction's rows are committed to it: the primary key
\* keeps one row per key, a row version written by the transaction replaces
\* the committed one.
Apply(tbl, pend) == {r \in tbl : r.id \notin Keys(pend)} \cup pend

\* INSERT ... ON CONFLICT (trade_id) DO NOTHING of one row: visible is what
\* the statement sees (committed rows and the transaction's own rows).
\* Returns the transaction's rows and whether the statement raised.
InsertOnConflictDoNothing(visible, pend, r) ==
    IF r.id \in Keys(visible)
    THEN [pend |-> pend, raised |-> FALSE]
    ELSE [pend |-> pend \cup {r}, raised |-> FALSE]

\* Mutant of Page: the pages after the first start one row late
PageOffByOne(recs, p, size) ==
    SubSeq(recs, IF p = 0 THEN 1 ELSE p + 2, Min(p + size, Len(recs)))

\* execute_batch: the page of at most page_size rows that follows the p rows
\* already sent
Page(recs, p, size) == SubSeq(recs, p + 1, Min(p + size, Len(recs)))

\* Mutant of InsertReturn: the number of rows the statements inserted
InsertReturnRowcount(recs, rowcount) == rowcount

\* insert_records: "return len(records)"; the number of rows the INSERTs
\* added (rowcount) is not looked at
InsertReturn(recs, rowcount) == Len(recs)

\* execute_batch: one page of statements run in order in the transaction
RECURSIVE ExecutePage(_, _, _)
ExecutePage(tbl, pend, page) ==
    IF page = <<>> THEN [pend |-> pend, raised |-> FALSE]
    ELSE LET one == InsertOnConflictDoNothing(Apply(tbl, pend), pend, Head(page))
         IN IF one.raised THEN one
            ELSE ExecutePage(tbl, one.pend, Tail(page))

\* Mutant of Converged: "the target holds at least as many rows"
ConvergedAtLeast(count, sids) == count >= Cardinality(sids)

\* sync(): final_count == len(source_ids)
Converged(count, sids) == count = Cardinality(sids)

\* Mutant of ReadonlyArg: the connection is opened read-write
ReadonlyArgOff == FALSE

\* get_sql_server_connection(readonly=True) as sync() calls it
ReadonlyArg == TRUE

\* Mutant of Autocommit: every statement is committed as it runs
AutocommitOn == TRUE

\* psycopg2.connect(...) leaves autocommit off: statements run in a transaction
Autocommit == FALSE

\* Mutants of Aggregate: "success = X.sync()", the last result wins; the
\* return value of sync() is dropped
AggregateLast(flag, r) == r
AggregateIgnore(flag, r) == flag

\* main(): "if not X.sync(): success = False"
Aggregate(flag, r) == IF ~r THEN FALSE ELSE flag

\* main(): "if not success: sys.exit(1)", else the interpreter exits with 0
ExitStatus(flag) == IF ~flag THEN 1 ELSE 0


\* ------------------------------------------------------------- initial
TableChoices(v) == {RowsOf(S, v) : S \in SUBSET Ids}

\* The entity types do not share state: the initial states give one of them
\* tables with rows, the tables of the others start empty.
OthersEmpty(tbls, e) == \A o \in (1..NumEntities) \ {e} : tbls[o] = {}

Init ==
    /\ source \in [1..NumEntities -> TableChoices(SrcVal)]
    /\ target \in [1..NumEntities -> TableChoices(StaleVal)]
    /\ \E e \in 1..NumEntities : OthersEmpty(source, e) /\ OthersEmpty(target, e)
    /\ txn = {}
    /\ batch_size = 0
    /\ pc = "main"
    /\ cur = 1
    /\ run = 1
    /\ exc = "none"
    /\ success = TRUE
    /\ exitCode = -1
    /\ source_ids = {} /\ target_ids = {} /\ missing_ids = {}
    /\ records = <<>> /\ pos = 0 /\ inserted = 0 /\ final_count = 0
    /\ ret = FALSE
    /\ sql_conn = "none" /\ sql_cursor = "none"
    /\ pg_conn = "none" /\ pg_cursor = "none"
    /\ sql_readonly = TRUE
    /\ result = NoResult
    /\ prev = NoResult
    /\ target0 = {}
    /\ added = {}
    /\ writerRows = {}
    /\ srcOps = {}
    /\ pages = 0
    /\ conflictSeen = FALSE
    /\ fetchLens = {}
    /\ committed = FALSE
    /\ envCount = 0

\* ------------------------------------------------------------- main()

\* main(): success = True, then the call of FXTradeSync.sync()
MainStart ==
    /\ pc = "main"
    /\ success' = TRUE
    /\ cur' = 1
    /\ pc' = "connect_sql"
    /\ UNCHANGED <<stores, locals, conns, run, exc, exitCode, batch_size, hist>>

\* ------------------------------------------------- exceptions

connflags == <<sql_conn, sql_cursor, pg_conn, pg_cursor>>

\* finally: sql_cursor.close(); sql_conn.close(); pg_cursor.close();
\* pg_conn.close().  k is the close that raises (0: none does); the closes
\* after it are not run.
CloseAll(k) ==
    LET done(n) == k = 0 \/ n < k
    IN /\ sql_cursor' = IF done(1) THEN "closed" ELSE sql_cursor
       /\ sql_conn' = IF done(2) THEN "closed" ELSE sql_conn
       /\ pg_cursor' = IF done(3) THEN "closed" ELSE pg_cursor
       /\ pg_conn' = IF done(4) THEN "closed" ELSE pg_conn

\* main(): "except Exception as e: logger.error(...); sys.exit(1)".  The
\* process ends; a transaction that was not committed is gone with it.
ExitOnException(kind) ==
    /\ exc' = kind
    /\ result' = [result EXCEPT ![cur] = "FAILED"]
    /\ exitCode' = 1
    /\ txn' = {}
    /\ pc' = "exited"

\* An exception raised inside sync()'s try block: the finally block runs, the
\* exception (or that of a failing close) leaves sync() and reaches main()'s
\* handler.  Nothing else happens in between, so this is one step.
Raise(kind) ==
    \E k \in 0..4 :
        /\ CloseAll(k)
        /\ ExitOnException(IF k = 0 THEN kind ELSE "CloseError")

\* A step of sync() that raises nothing
NoRaise == UNCHANGED <<connflags, exc, result, exitCode>>

\* ------------------------------------------------------------- sync()

\* sync(): sql_conn = get_sql_server_connection(readonly=True); sql_cursor = ...
\* A failure here is outside the try block: no finally, the exception goes
\* straight to main().
ConnectSqlServer ==
    /\ pc = "connect_sql"
    /\ source_ids' = {} /\ target_ids' = {} /\ missing_ids' = {}
    /\ records' = <<>> /\ pos' = 0 /\ inserted' = 0 /\ final_count' = 0
    /\ ret' = FALSE
    /\ pg_conn' = "none" /\ pg_cursor' = "none"
    /\ target0' = target[cur]
    /\ added' = {} /\ writerRows' = {} /\ pages' = 0
    /\ conflictSeen' = FALSE /\ fetchLens' = {} /\ committed' = FALSE
    /\ srcOps' = {}
    /\ \E ok \in BOOLEAN :
        IF ok
        THEN /\ sql_conn' = "open" /\ sql_cursor' = "open"
             /\ sql_readonly' = ReadonlyArg
             /\ pc' = "connect_pg"
             /\ UNCHANGED <<exc, result, exitCode, txn>>
        ELSE /\ sql_conn' = "none" /\ sql_cursor' = "none"
             /\ sql_readonly' = sql_readonly
             /\ ExitOnException("ConnectionError")
    /\ UNCHANGED <<source, target, cur, run, success, batch_size, prev, envCount>>

\* sync(): pg_conn = get_postgres_connection(); pg_cursor = pg_conn.cursor()
\* Also outside the try block: on failure the source connection stays open.
ConnectPostgres ==
    /\ pc = "connect_pg"
    /\ \E ok \in BOOLEAN :
        IF ok
        THEN /\ pg_conn' = "open" /\ pg_cursor' = "open"
             /\ pc' = "get_source_ids"
             /\ UNCHANGED <<exc, result, exitCode, txn>>
        ELSE /\ pg_conn' = "none" /\ pg_cursor' = "none"
             /\ ExitOnException("ConnectionError")
    /\ UNCHANGED <<source, target, locals, sql_conn, sql_cursor, sql_readonly,
                   cur, run, success, batch_size, prev, target0, added,
                   writerRows, srcOps, pages, conflictSeen, fetchLens, committed,
                   envCount>>

\* get_source_ids: SELECT TradeId FROM <source table>
GetSourceIds ==
    /\ pc = "get_source_ids"
    /\ \E ok \in BOOLEAN :
        IF ok
        THEN /\ source_ids' = Keys(source[cur])
             /\ srcOps' = srcOps \cup {"select_ids"}
             /\ pc' = "get_target_ids"
             /\ NoRaise
             /\ txn' = txn
        ELSE /\ Raise("QueryError")
             /\ UNCHANGED <<source_ids, srcOps>>
    /\ UNCHANGED <<source, target, target_ids, missing_ids, records, pos, inserted,
                   final_count, ret, sql_readonly, cur, run, success, batch_size,
                   prev, target0, added, writerRows, pages, conflictSeen,
                   fetchLens, committed, envCount>>

\* get_target_ids: SELECT trade_id FROM <target table>, then
\* missing_ids = source_ids - target_ids and the test "if missing_ids:"
GetTargetIds ==
    /\ pc = "get_target_ids"
    /\ \E ok \in BOOLEAN :
        IF ok
        THEN /\ target_ids' = Keys(Apply(target[cur], txn))
             /\ missing_ids' = MissingIds(source_ids, target_ids')
             /\ pc' = AfterDiff(missing_ids')
             /\ NoRaise
             /\ txn' = txn
        ELSE /\ Raise("QueryError")
             /\ UNCHANGED <<target_ids, missing_ids>>
    /\ UNCHANGED <<source, target, source_ids, records, pos, inserted, final_count,
                   ret, sql_readonly, cur, run, success, batch_size, prev, target0,
                   added, writerRows, srcOps, pages, conflictSeen, fetchLens,
                   committed, envCount>>

\* records = fetch_missing_records(sql_cursor, missing_ids).  With no
\* missing id the function returns [] and sends no query.
Fetch ==
    /\ pc = "fetch"
    /\ \E ok \in BOOLEAN :
        IF ok
        THEN /\ records' = FetchMissingRecords(source[cur], missing_ids)
             /\ srcOps' = IF missing_ids = {} THEN srcOps
                          ELSE srcOps \cup {"select_rows"}
             /\ fetchLens' = IF missing_ids = {} THEN fetchLens
                             ELSE fetchLens \cup {FetchParams(missing_ids)}
             /\ pc' = "insert"
             /\ NoRaise
             /\ txn' = txn
        ELSE /\ Raise("QueryError")
             /\ UNCHANGED <<records, srcOps, fetchLens>>
    /\ UNCHANGED <<source, target, source_ids, target_ids, missing_ids, pos,
                   inserted, final_count, ret, sql_readonly, cur, run, success,
                   batch_size, prev, target0, added, writerRows, pages,
                   conflictSeen, committed, envCount>>

\* insert_records: "if not records: return 0"; otherwise execute_batch sends
\* the rows page by page (page_size = BATCH_SIZE) and len(records) is returned
\* after the last page.  One step of this action is one page.
InsertRecords ==
    /\ pc = "insert"
    /\ IF records = <<>>
       THEN /\ inserted' = 0
            /\ pc' = "commit"
            /\ NoRaise
            /\ UNCHANGED <<target, txn, pos, pages, conflictSeen, batch_size>>
       ELSE \E size \in (IF batch_size = 0 THEN BatchSizes ELSE {batch_size}) :
            LET last == Min(pos + size, Len(records))
                page == Page(records, pos, size)
                res == ExecutePage(target[cur], txn, page)
            IN /\ batch_size' = size
               /\ \E ok \in BOOLEAN :
                  IF ok /\ ~res.raised
                  THEN /\ IF Autocommit
                          THEN /\ target' = [target EXCEPT ![cur] = Apply(@, res.pend)]
                               /\ txn' = {}
                          ELSE /\ txn' = res.pend
                               /\ target' = target
                       /\ pos' = last
                       /\ pages' = pages + 1
                       /\ conflictSeen' = (conflictSeen \/
                             \E k \in pos + 1..last :
                                 records[k].id \in Keys(target[cur] \cup txn))
                       /\ inserted' = IF last = Len(records)
                                      THEN InsertReturn(records, Cardinality(res.pend))
                                      ELSE inserted
                       /\ pc' = IF last = Len(records) THEN "commit" ELSE "insert"
                       /\ NoRaise
                  ELSE /\ Raise(IF ok THEN "UniqueViolation" ELSE "QueryError")
                       /\ UNCHANGED <<target, pos, inserted, pages, conflictSeen>>
    /\ UNCHANGED <<source, source_ids, target_ids, missing_ids, records,
                   final_count, ret, sql_readonly, cur, run, success, prev,
                   target0, added, writerRows, srcOps, fetchLens, committed,
                   envCount>>

\* pg_conn.commit(), inside "if missing_ids:"
Commit ==
    /\ pc = "commit"
    /\ \E ok \in BOOLEAN :
        IF ok
        THEN /\ target' = [target EXCEPT ![cur] = Apply(@, txn)]
             /\ txn' = {}
             /\ added' = txn
             /\ committed' = TRUE
             /\ pc' = "count"
             /\ NoRaise
        ELSE /\ Raise("QueryError")
             /\ UNCHANGED <<target, added, committed>>
    /\ UNCHANGED <<source, locals, sql_readonly, cur, run, success, batch_size,
                   prev, target0, writerRows, srcOps, pages, conflictSeen,
                   fetchLens, envCount>>

\* Final verification: SELECT COUNT(*) FROM <target table>, the comparison
\* with len(source_ids) and the return of True or False
VerifyCount ==
    /\ pc = "count"
    /\ \E ok \in BOOLEAN :
        IF ok
        THEN /\ final_count' = Cardinality(Apply(target[cur], txn))
             /\ ret' = Converged(final_count', source_ids)
             /\ pc' = "finally"
             /\ NoRaise
             /\ txn' = txn
        ELSE /\ Raise("QueryError")
             /\ UNCHANGED <<final_count, ret>>
    /\ UNCHANGED <<source, target, source_ids, target_ids, missing_ids, records,
                   pos, inserted, sql_readonly, cur, run, success, batch_size,
                   prev, target0, added, writerRows, srcOps, pages, conflictSeen,
                   fetchLens, committed, envCount>>

\* The finally block after "return True" / "return False": with all four
\* closes done sync() returns; a close that raises replaces the return value
\* by its exception.  Closing pg_conn ends its transaction.
Finally ==
    /\ pc = "finally"
    /\ \E k \in 0..4 :
        /\ CloseAll(k)
        /\ IF k = 0
           THEN /\ pc' = "returned"
                /\ txn' = {}
                /\ UNCHANGED <<exc, result, exitCode>>
           ELSE ExitOnException("CloseError")
    /\ UNCHANGED <<source, target, locals, sql_readonly, cur, run, success,
                   batch_size, prev, target0, added, writerRows, srcOps, pages,
                   conflictSeen, fetchLens, committed, envCount>>

\* ----------------------------------------------------- main(), continued

\* main(): "if not X.sync(): success = False", then the next entity's sync
MainNext ==
    /\ pc = "returned"
    /\ success' = Aggregate(success, ret)
    /\ result' = [result EXCEPT ![cur] = IF ret THEN "CONVERGED" ELSE "MISMATCH"]
    /\ IF cur < NumEntities
       THEN /\ cur' = cur + 1
            /\ pc' = "connect_sql"
       ELSE /\ cur' = cur
            /\ pc' = "summary"
    /\ UNCHANGED <<stores, locals, conns, run, exc, exitCode, batch_size,
                   prev, target0, added, writerRows, srcOps, pages, conflictSeen,
                   fetchLens, committed, envCount>>

\* main(): the summary and "if not success: sys.exit(1)"
MainExit ==
    /\ pc = "summary"
    /\ exitCode' = ExitStatus(success)
    /\ pc' = "exited"
    /\ UNCHANGED <<stores, locals, conns, cur, run, exc, success, batch_size, hist>>

\* The scheduler invokes the script again.  The new process has no state of
\* the old one: what it starts from is the contents of the two stores.
Reinvoke ==
    /\ pc = "exited"
    /\ run < MaxRuns
    /\ run' = run + 1
    /\ prev' = result
    /\ result' = NoResult
    /\ exc' = "none"
    /\ exitCode' = -1
    /\ pc' = "main"
    /\ cur' = 1
    /\ success' = TRUE
    /\ source_ids' = {} /\ target_ids' = {} /\ missing_ids' = {}
    /\ records' = <<>> /\ pos' = 0 /\ inserted' = 0 /\ final_count' = 0
    /\ ret' = FALSE
    /\ sql_conn' = "none" /\ sql_cursor' = "none"
    /\ pg_conn' = "none" /\ pg_cursor' = "none"
    /\ sql_readonly' = TRUE
    /\ target0' = {} /\ added' = {} /\ writerRows' = {}
    /\ srcOps' = {} /\ pages' = 0 /\ conflictSeen' = FALSE
    /\ fetchLens' = {} /\ committed' = FALSE
    /\ batch_size' = 0
    /\ UNCHANGED <<stores, envCount>>

\* ------------------------------------------- the stores' other clients

\* The other clients act while a sync runs.  A change commutes with the
\* steps of the sync that do not touch the table it changes, so it is taken
\* right before the next step that does.  A change before the sync's first
\* read of a table is a sync that starts from another table; what is left is
\* a change of the source between the read of its ids and the fetch, and a
\* change of the target between the read of its ids and an INSERT page or
\* the final count.
BeforeFetch == pc = "fetch"
BeforeTargetAccess == pc \in {"insert", "count"}

\* A concurrent writer commits a row to the target table being synced.  The
\* key is free: the table's primary key makes the writer wait for, and then
\* conflict with, a row of the same key in an open transaction.
WriterInsert ==
    /\ BeforeTargetAccess
    /\ envCount < MaxEnv
    /\ \E i \in Ids \ Keys(target[cur] \cup txn) :
        /\ target' = [target EXCEPT ![cur] = @ \cup {Row(i, WriterVal)}]
        /\ writerRows' = writerRows \cup {Row(i, WriterVal)}
    /\ envCount' = envCount + 1
    /\ UNCHANGED <<source, txn, locals, conns, ctl, result, prev, target0, added,
                   srcOps, pages, conflictSeen, fetchLens, committed>>

\* The source's own application adds a trade
SourceInsert ==
    /\ BeforeFetch
    /\ envCount < MaxEnv
    /\ \E i \in Ids \ Keys(source[cur]) :
        source' = [source EXCEPT ![cur] = @ \cup {Row(i, SrcVal)}]
    /\ envCount' = envCount + 1
    /\ UNCHANGED <<target, txn, locals, conns, ctl, result, prev, target0, added,
                   writerRows, srcOps, pages, conflictSeen, fetchLens, committed>>

\* The source's own application deletes a trade
SourceDelete ==
    /\ BeforeFetch
    /\ envCount < MaxEnv
    /\ \E r \in source[cur] :
        source' = [source EXCEPT ![cur] = @ \ {r}]
    /\ envCount' = envCount + 1
    /\ UNCHANGED <<target, txn, locals, conns, ctl, result, prev, target0, added,
                   writerRows, srcOps, pages, conflictSeen, fetchLens, committed>>

\* ------------------------------------------------------ specifications

Program ==
    \/ MainStart
    \/ ConnectSqlServer
    \/ ConnectPostgres
    \/ GetSourceIds
    \/ GetTargetIds
    \/ Fetch
    \/ InsertRecords
    \/ Commit
    \/ VerifyCount
    \/ Finally
    \/ MainNext
    \/ MainExit
    \/ Reinvoke

\* The program alone: nobody else touches the stores while it runs
NextQuiet == Program

\* The program with the stores' other clients
Next ==
    \/ Program
    \/ WriterInsert
    \/ SourceInsert
    \/ SourceDelete

SpecQuiet == Init /\ [][NextQuiet]_vars

Spec == Init /\ [][Next]_vars

TypeOK ==
    /\ \A e \in 1..NumEntities : IsKeyed(source[e])
    /\ pc \in {"main", "connect_sql", "connect_pg", "get_source_ids",
               "get_target_ids", "fetch", "insert", "commit", "count",
               "finally", "returned", "summary", "exited"}
    /\ exitCode \in -1..1
    /\ pos \in 0..Len(records)

\* -------------------------------------------------------------- claims

\* target0, added, writerRows and the sync() locals describe the sync of
\* entity cur from the moment it has begun
SyncScope == pc \notin {"main", "connect_sql"}

\* sync() has returned a value / has raised
SyncReturned == pc = "returned"
SyncRaised == pc = "exited" /\ result[cur] = "FAILED"

\* C1 (SpecQuiet): when the target ids are a subset of the source ids and
\* nobody else changes the stores, a sync() that returns leaves the target id
\* set equal to the source id set and returns True.
C1_Convergence ==
    (SyncReturned /\ Keys(target0) \subseteq Keys(source[cur]))
        => (Keys(target[cur]) = Keys(source[cur]) /\ ret)

C1_Witness ==
    /\ SyncReturned
    /\ Keys(target0) \subseteq Keys(source[cur])
    /\ target0 # {}
    /\ added # {}
    /\ ret

\* C2 (SpecQuiet), the claim as stated: when FXTradeSync.sync() raises, the
\* same invocation of main() still runs FXOptionTradeSync.sync().
C2_FailureIsolation ==
    (pc = "exited" /\ result[1] = "FAILED") => result[2] # "NONE"

\* C3 (Spec): an insert whose batch holds keys already present in the target
\* does not raise a key violation, and no table, with or without the rows of
\* the open transaction, holds two rows of one key; the rows that were there
\* stay.
C3_ConflictSafety ==
    /\ exc # "UniqueViolation"
    /\ \A e \in 1..NumEntities : IsKeyed(target[e])
    /\ SyncScope => /\ IsKeyed(target[cur] \cup txn)
                    /\ (target0 \cup writerRows) \subseteq target[cur]

C3_Witness ==
    /\ pc = "count"
    /\ conflictSeen
    /\ committed
    /\ exc = "none"

\* C4 (Spec), the claim as stated: after a sync() that failed, the committed
\* target holds none of the rows of that run.
C4_FailedSyncLeavesTarget ==
    SyncRaised => target[cur] = target0 \cup writerRows

\* C4 (Spec), amended: until pg_conn.commit() has succeeded the committed
\* target holds none of the rows of the run, and the commit comes only after
\* the last page of the insert; so a sync() that fails in the fetch, in a
\* page or in the commit leaves the committed target as it was.
C4_AllOrNothing ==
    SyncScope =>
        /\ ~committed => (target[cur] = target0 \cup writerRows /\ added = {})
        /\ committed => (pos = Len(records) /\ txn = {}
                         /\ target[cur] = target0 \cup writerRows \cup added)

C4_Witness ==
    /\ SyncRaised
    /\ exc = "QueryError"
    /\ pages > 0
    /\ ~committed
    /\ target[cur] = target0

\* The previous invocation of main() ran every sync to its end
AfterCompleteRun ==
    /\ run > 1
    /\ \A e \in 1..NumEntities : prev[e] \in {"CONVERGED", "MISMATCH"}

\* C5 (SpecQuiet), the claim as stated: the second of two runs in a row has an
\* empty missing set, issues no insert, and both runs return CONVERGED.
C5_TwiceConverged ==
    (AfterCompleteRun /\ SyncReturned)
        => (missing_ids = {} /\ pages = 0 /\ ret /\ prev[cur] = "CONVERGED")

\* C5 (SpecQuiet), amended: the second of two runs in a row has an empty
\* missing set, issues neither fetch nor insert, leaves the target as it is
\* and returns what the first run returned: CONVERGED on both runs exactly
\* when the target holds no id that the source lacks.
C5_Idempotence ==
    (AfterCompleteRun /\ SyncReturned)
        => /\ missing_ids = {}
           /\ pages = 0
           /\ fetchLens = {}
           /\ target[cur] = target0
           /\ ret <=> prev[cur] = "CONVERGED"
           /\ ret <=> Keys(target0) \subseteq Keys(source[cur])

C5_Witness ==
    /\ AfterCompleteRun
    /\ SyncReturned
    /\ ret
    /\ prev[cur] = "CONVERGED"
    /\ \E r \in target[cur] : r.val = SrcVal

\* C6 (Spec): the process exits with 0 exactly when every sync ended
\* CONVERGED, and with a non-zero status when one ended MISMATCH or FAILED.
C6_ExitStatus ==
    pc = "exited" =>
        /\ exitCode = 0 <=> \A e \in 1..NumEntities : result[e] = "CONVERGED"
        /\ (\E e \in 1..NumEntities : result[e] \in {"MISMATCH", "FAILED"})
              => exitCode = 1

C6_Witness ==
    /\ pc = "exited"
    /\ result[1] = "MISMATCH"
    /\ result[2] = "CONVERGED"
    /\ exitCode = 1

\* C7 (Spec): at every step of a run, failed or not, the rows the run has
\* written or committed have keys of the source id set read in step 1, and
\* the target holds only rows it had, rows of other writers and such rows.
C7_SourceSubset ==
    SyncScope =>
        /\ Keys(txn) \subseteq source_ids
        /\ Keys(added) \subseteq source_ids
        /\ Keys(target[cur] \ writerRows) \subseteq Keys(target0) \cup source_ids

C7_Witness ==
    /\ pc = "returned"
    /\ committed
    /\ added # {}
    /\ ~(Keys(source[cur]) \subseteq source_ids)

\* C8 (SpecQuiet): sync() returns True exactly when the number of target rows
\* after the commit equals the number of source ids read in step 1; with a
\* target that holds the source ids and one more, nothing is fetched or
\* inserted and the result is MISMATCH.
C8_RawCount ==
    SyncReturned =>
        /\ final_count = Cardinality(target[cur])
        /\ ret <=> Cardinality(target[cur]) = Cardinality(source_ids)
        /\ (source_ids \subseteq Keys(target0) /\ source_ids # Keys(target0))
              => /\ missing_ids = {}
                 /\ pages = 0
                 /\ final_count = Cardinality(target0)
                 /\ ~ret

C8_Witness ==
    /\ SyncReturned
    /\ source_ids = {1}
    /\ Keys(target0) = {1, 2}
    /\ final_count = 2
    /\ ~ret

\* C9 (Spec): no step removes or changes a row of a target table.
C9_InsertOnly ==
    [][\A e \in 1..NumEntities : target[e] \subseteq target'[e]]_vars

C9_Witness ==
    /\ pc = "returned"
    /\ committed
    /\ added # {}
    /\ \E r \in target0 : r \in target[cur] /\ Row(r.id, SrcVal) \in source[cur]

\* C10 (Spec): the statements issued on the source connection are the two
\* SELECTs, the source connection is opened read-only, and no step of the
\* program changes a source table.
C10_NoWriteBack ==
    /\ [](/\ srcOps \subseteq {"select_ids", "select_rows"}
          /\ sql_conn # "none" => sql_readonly)
    /\ [][envCount' = envCount => source' = source]_vars

C10_Witness ==
    /\ SyncRaised
    /\ srcOps = {"select_ids", "select_rows"}
    /\ sql_readonly
    /\ pages > 0

\* C11 (Spec): for every page size and every list of fetched rows, what a
\* sync has committed is what one INSERT of all the fetched rows, run as a
\* single page, would have added: the page boundaries do not change which
\* rows end up in the target.
C11_ChunkingTransparency ==
    (SyncScope /\ committed) =>
        LET one == ExecutePage(target0 \cup writerRows, {}, records)
        IN /\ ~one.raised
           /\ added = one.pend
           /\ target[cur] = Apply(target0 \cup writerRows, one.pend)

C11_Witness ==
    /\ SyncReturned
    /\ committed
    /\ batch_size = 1
    /\ Len(records) = batch_size + 1
    /\ pages = 2
    /\ Cardinality(added) = 2

\* C12 (Spec): a sync() that returns False raises nothing and does not end
\* the process; after FXTradeSync.sync() returned False main() has cleared
\* its success flag and gone on to FXOptionTradeSync.sync(), and the process
\* ends with that sync run and with exit status 1.
C12_MismatchNonFatal ==
    /\ (SyncReturned /\ ~ret) => (exc = "none" /\ exitCode = -1)
    /\ result[1] = "MISMATCH" =>
          /\ ~success
          /\ cur = 2
          /\ pc # "main"
          /\ pc = "exited" => (result[2] # "NONE" /\ exitCode = 1)

C12_Witness ==
    /\ result[1] = "MISMATCH"
    /\ cur = 2
    /\ SyncReturned
    /\ ret
    /\ ~success
    /\ exc = "none"

\* C13 (SpecQuiet), the claim as stated: when sync() has returned or raised,
\* none of the connections and cursors it opened is still open.
C13_GuaranteedRelease ==
    (SyncReturned \/ SyncRaised) =>
        /\ sql_cursor # "open"
        /\ sql_conn # "open"
        /\ pg_cursor # "open"
        /\ pg_conn # "open"

\* The steps of sync() in the order of the spec's state machine, as pairs of
\* positions (from, to): START, source ids, target ids and difference,
\* fetch, insert (page after page), commit, verification, return.
OrderUpToDiff ==
    {<<"connect_sql", "connect_pg">>, <<"connect_pg", "get_source_ids">>,
     <<"get_source_ids", "get_target_ids">>}
OrderFromFetch ==
    {<<"get_target_ids", "fetch">>, <<"fetch", "insert">>, <<"insert", "insert">>,
     <<"insert", "commit">>, <<"commit", "count">>, <<"count", "finally">>,
     <<"finally", "returned">>}
SyncSteps ==
    {"connect_sql", "connect_pg", "get_source_ids", "get_target_ids", "fetch",
     "insert", "commit", "count", "finally"}

\* A step of sync() that does not raise goes along one of the pairs of order
\* (a step of another client of the stores is not a step of sync())
FollowsOrder(order) ==
    (pc \in SyncSteps /\ pc' # "exited" /\ envCount' = envCount)
        => <<pc, pc'>> \in order

\* An INSERT page is sent only after the fetch and before the commit
InsertBetweenFetchAndCommit ==
    pages' > pages => ("select_rows" \in srcOps /\ ~committed /\ ~committed')

C15_BoundedFetchParams ==
    \A n \in fetchLens : n <= ParamLimit

\* The rows of a list
RowSet(recs) == {recs[k] : k \in 1..Len(recs)}

\* sync() is past the fetch
AfterFetch == pc \in {"insert", "commit", "count", "finally", "returned"}

\* C16 (Spec): the fetch returns the rows of the missing ids that the source
\* still holds, fewer than the ids asked for when one was deleted after step
\* 1; a sync() that then returns has committed exactly the returned rows
\* whose key was free, and returns False when the target count differs from
\* the number of source ids of step 1.
C16_VanishedSourceRow ==
    /\ (AfterFetch /\ missing_ids # {}) =>
          /\ RowSet(records) = {r \in source[cur] : r.id \in missing_ids}
          /\ Len(records) <= Cardinality(missing_ids)
    /\ (SyncReturned /\ Len(records) < Cardinality(missing_ids)) =>
          /\ committed
          /\ exc = "none"
          /\ added = {r \in RowSet(records) : r.id \notin Keys(target0 \cup writerRows)}
          /\ final_count # Cardinality(source_ids) => ~ret

C16_Witness ==
    /\ SyncReturned
    /\ Len(records) < Cardinality(missing_ids)
    /\ added # {}
    /\ added = RowSet(records)
    /\ committed
    /\ ~ret

\* C17 (Spec): a sync() that returns leaves in the target every row that was
\* in the source when the run read the source ids and is still there at the
\* fetch, whatever earlier runs did: a row that an earlier run did not see,
\* or did not commit because it failed, arrives with the next run that
\* returns.  The run uses nothing but the two tables (Reinvoke).
C17_SelfHealing ==
    SyncReturned =>
        \A r \in source[cur] : r.id \in source_ids => r.id \in Keys(target[cur])

\* The run before failed in its first sync after a row had been added to the
\* source behind its back (both rows of the source are new to the target in
\* this run, so the one concurrent change was that of the earlier run); this
\* run has committed both.
C17_Witness ==
    /\ run = 2
    /\ cur = 1
    /\ prev[1] = "FAILED"
    /\ SyncReturned
    /\ envCount = 1
    /\ Cardinality(source[1]) = 2
    /\ added = source[1]
    /\ ret

\* C18 (Spec): a sync() that found no source id missing in the target has
\* sent no fetch query and no INSERT and has committed nothing, the target
\* holds what it held (and what other writers added), the count was read and
\* compared, and the result is True when the target ids are the source ids.
C18_EmptyMissingSet ==
    (SyncReturned /\ source_ids \subseteq target_ids) =>
        /\ missing_ids = {}
        /\ "select_rows" \notin srcOps
        /\ fetchLens = {}
        /\ pages = 0
        /\ added = {}
        /\ target[cur] = target0 \cup writerRows
        /\ final_count = Cardinality(target[cur])
        /\ ret <=> final_count = Cardinality(source_ids)
        /\ Keys(target[cur]) = source_ids => ret

C18_Witness ==
    /\ SyncReturned
    /\ run = 1
    /\ source_ids = target_ids
    /\ Cardinality(source_ids) = 2
    /\ pages = 0
    /\ final_count = 2
    /\ ret

\* insert_records has returned and the commit has succeeded
InsertReported == SyncScope /\ committed

\* C19 (Spec): the count sync() reports as inserted is the number of rows
\* fetched and handed to insert_records; it is never below the number of
\* rows the run added to the target, and equals it exactly when no handed
\* row met a key that was already in the target.
C19_ReportedInsertCount ==
    InsertReported =>
        /\ inserted = Len(records)
        /\ inserted >= Cardinality(added)
        /\ inserted = Cardinality(added) <=> ~conflictSeen

C19_Witness ==
    /\ SyncReturned
    /\ committed
    /\ conflictSeen
    /\ inserted = 2
    /\ Cardinality(added) = 1

====
